---------------------------- MODULE Spec2Model ----------------------------
(***************************************************************************)
(* A model of rules_esbuild's launcher (esbuild/private/launcher.js) and   *)
(* of its bazel-sandbox resolver plugin                                    *)
(* (esbuild/private/plugins/bazel-sandbox.js).                             *)
(*                                                                         *)
(* Strings that the code inspects character by character (paths) are       *)
(* tuples of one-character strings, so that startsWith, includes, indexOf, *)
(* substring and path.join are computed the way the code computes them.    *)
(***************************************************************************)
EXTENDS Naturals, Sequences, FiniteSets

(***************************************************************************)
(* Bounds of the model.                                                    *)
(***************************************************************************)
\* how deep the model lets onResolve -> build.resolve -> onResolve nest
MaxDepth == 2
\* how many keys a configuration module's default export holds at most
MaxConfigKeys == 2

(***************************************************************************)
(* JavaScript's undefined.                                                 *)
(***************************************************************************)
Undefined == "undefined"

(***************************************************************************)
(* String.prototype operations on character tuples.                        *)
(***************************************************************************)
StartsWith(s, prefix) ==
    /\ Len(prefix) <= Len(s)
    /\ SubSeq(s, 1, Len(prefix)) = prefix

\* the 1-based positions at which sub occurs in s
Occurrences(s, sub) ==
    { i \in 1..(Len(s) + 1) :
        /\ i + Len(sub) - 1 <= Len(s)
        /\ SubSeq(s, i, i + Len(sub) - 1) = sub }

Includes(s, sub) == Occurrences(s, sub) # {}

\* String.prototype.indexOf, 1-based; 0 stands for JavaScript's -1
IndexOf(s, sub) ==
    IF Occurrences(s, sub) = {} THEN 0
    ELSE CHOOSE i \in Occurrences(s, sub) : \A j \in Occurrences(s, sub) : i <= j

\* String.prototype.substring(start) with a 1-based start; a negative
\* JavaScript start (0 here) counts as the start of the string
SubstringFrom(s, start) == IF start < 1 THEN s ELSE SubSeq(s, start, Len(s))

(***************************************************************************)
(* path.join of node's posix path module: the non-empty arguments joined   *)
(* by "/" and normalized ("." and empty segments dropped, ".." resolved,   *)
(* a trailing separator kept).                                             *)
(***************************************************************************)
\* The one element of a singleton set.  The operators below take their
\* arguments through it, which binds each argument to its value once.
Only(S) == CHOOSE x \in S : TRUE

RECURSIVE Segments(_, _, _)
Segments(s0, i, cur0) ==
    Only({ IF i > Len(s) THEN <<cur>>
           ELSE IF s[i] = "/" THEN <<cur>> \o Segments(s, i + 1, <<>>)
           ELSE Segments(s, i + 1, Append(cur, s[i]))
           : s \in {s0}, cur \in {cur0} })

DotDot == <<".", ".">>

RECURSIVE NormalizeSegments(_, _, _)
NormalizeSegments(segs0, res0, allowAboveRoot) ==
    Only({ IF segs = <<>> THEN res
           ELSE LET h == Head(segs)
                    t == Tail(segs)
                IN  IF h = <<>> \/ h = <<".">>
                      THEN NormalizeSegments(t, res, allowAboveRoot)
                    ELSE IF h = DotDot
                      THEN IF res # <<>> /\ res[Len(res)] # DotDot
                             THEN NormalizeSegments(t, SubSeq(res, 1, Len(res) - 1),
                                                    allowAboveRoot)
                           ELSE IF allowAboveRoot
                             THEN NormalizeSegments(t, Append(res, h), allowAboveRoot)
                           ELSE NormalizeSegments(t, res, allowAboveRoot)
                    ELSE NormalizeSegments(t, Append(res, h), allowAboveRoot)
           : segs \in {segs0}, res \in {res0} })

RECURSIVE JoinSegments(_)
JoinSegments(segs0) ==
    Only({ IF segs = <<>> THEN <<>>
           ELSE IF Len(segs) = 1 THEN segs[1]
           ELSE segs[1] \o <<"/">> \o JoinSegments(Tail(segs))
           : segs \in {segs0} })

Normalize(p0) ==
    Only({ IF p = <<>> THEN <<".">>
    ELSE LET isAbsolute == p[1] = "/"
             trailing == p[Len(p)] = "/"
             body == JoinSegments(
                       NormalizeSegments(Segments(p, 1, <<>>), <<>>, ~isAbsolute))
         IN  IF body = <<>>
               THEN IF isAbsolute THEN <<"/">>
                    ELSE IF trailing THEN <<".", "/">> ELSE <<".">>
             ELSE (IF isAbsolute THEN <<"/">> ELSE <<>>) \o body
                  \o (IF trailing THEN <<"/">> ELSE <<>>)
       : p \in {p0} })

PathJoin(a, b) ==
    IF a = <<>> /\ b = <<>> THEN <<".">>
    ELSE IF a = <<>> THEN Normalize(b)
    ELSE IF b = <<>> THEN Normalize(a)
    ELSE Normalize(a \o <<"/">> \o b)

(***************************************************************************)
(* bazel-sandbox.js: the sandbox roots, read once from the environment.    *)
(***************************************************************************)
execroot == <<"/", "e">>
bindir == <<"b">>


(***************************************************************************)
(* The resolver plugin's world: the requests esbuild hands to the          *)
(* onResolve callback, and the pluginData objects they refer to.           *)
(***************************************************************************)
Requests == {"r1", "r2"}

\* pluginData objects made by esbuild or by another plugin (an onLoad result's
\* pluginData is handed, by reference, to every import of the loaded file)
SharedObjs == {"o1"}

\* a request's own object, made by `otherOptions.pluginData = {}`, is named
\* by the request
ObjIds == SharedObjs \cup Requests

ImportPaths ==
    { <<".", "/", "x">>,              \* ./x
      <<".", ".", "/", "b">>,         \* ../b
      <<"x">>,                        \* x (a bare specifier)
      <<"/", "x">> }                  \* /x

ResolveDirs ==
    { <<"/", "e", "/", "x">>,         \* /e/x
      <<"/", "x">> }                  \* /x

\* what build.resolve may answer and what a symbolic link may hold
PathPool ==
    { <<"/", "e", "/", "x">>,                                  \* /e/x
      <<"/", "e", "x">>,                                       \* /ex
      <<"/", "e", "/", ".", ".", "/", "x">>,                   \* /e/../x
      <<"/", "x", "/", "b", "/", "x">>,                        \* /x/b/x
      <<"/", "x", "/", "b", "/", ".", ".", "/", ".", ".", "/", "x">>,
                                                               \* /x/b/../../x
      <<"/", "x">>,                                            \* /x
      <<"x">>,                                                 \* x
      <<"\\", "x">>,                                           \* \x
      <<".", ".", "/", "x">> }                                 \* ../x

ErrorResult == [errors |-> TRUE, path |-> <<>>]

PathResult(p) == [errors |-> FALSE, path |-> p]

ResolverResults == { PathResult(p) : p \in PathPool } \cup { ErrorResult }

EscapeError(p) ==
    [ text |-> "esbuild resolved a path outside of BAZEL_BINDIR",
      root |-> bindir,
      path |-> p ]

FsError == [ text |-> "fs", root |-> <<>>, path |-> <<>> ]

VARIABLES
    req,      \* request id -> the state of the callback invocation(s) for it
    heap      \* pluginData object -> its executedSandboxPlugin property

pvars == <<req, heap>>

\* the state of one run of launcher.js
VARIABLES
    lpc,           \* where the run is: "start", "import", "build", "ended"
    argv,          \* the flags on the command line
    env,           \* the environment variables that are set
    args,          \* the build specification being assembled
    existingArgs,  \* args as handed to processConfigFile
    config,        \* the configuration module's default export
    stderr,        \* what console.error has written
    buildResult,   \* {} until esbuild.build settles, then how it settled
    exitCode,      \* {} while the process runs, then its exit status
    manifest       \* whether the metafile has been written

lvars ==
    <<lpc, argv, env, args, existingArgs, config, stderr, buildResult,
      exitCode, manifest>>

vars ==
    <<req, heap, lpc, argv, env, args, existingArgs, config, stderr, buildResult,
      exitCode,
      manifest>>

IdleRequest ==
    [ st |-> "idle", importPath |-> <<>>, resolveDir |-> <<>>,
      pluginData |-> "none", ref |-> "none", markedOnEntry |-> FALSE,
      depth |-> 0, pc |-> "none", calls |-> 0, probes |-> 0, fs |-> "none",
      raw |-> {}, pending |-> {}, outcome |-> "none", result |-> {},
      err |-> {} ]

(***************************************************************************)
(* resolveInExecroot, lines 61-95: what is done with a resolution result.  *)
(***************************************************************************)
Returned(result) == [ kind |-> "result", result |-> {result}, err |-> {} ]

Thrown(e) == [ kind |-> "thrown", result |-> {}, err |-> {e} ]

Skipped == [ kind |-> "skipped", result |-> {}, err |-> {} ]

IsPathLike(p) ==
    \/ StartsWith(p, <<".">>)
    \/ StartsWith(p, <<"/">>)
    \/ StartsWith(p, <<"\\">>)

\* `!result.path.startsWith(execroot)`, line 76
LeftExecroot(p) == ~StartsWith(p, execroot)

\* LeftBindir without its test, to see which properties rest on it
BindirNeverLeft(p) == FALSE

\* `!result.path.includes(bindir)`, line 78
LeftBindir(p) == ~Includes(p, bindir)

CorrectedPath(p) == PathJoin(execroot, SubstringFrom(p, IndexOf(p, bindir)))

\* (the DEBUG line of 88-92 only writes to the error stream)
PostProcess(result) ==
    IF result.errors THEN Returned(result)
    ELSE IF ~IsPathLike(result.path) THEN Returned(result)
    ELSE IF LeftExecroot(result.path)
      THEN IF LeftBindir(result.path)
             THEN Thrown(EscapeError(result.path))
           ELSE Returned([result EXCEPT !.path = CorrectedPath(result.path)])
    ELSE Returned(result)

(***************************************************************************)
(* The end of one invocation of the callback.  At depth 0 it is the        *)
(* answer to esbuild; deeper, it is the answer to the onResolve that       *)
(* esbuild ran on behalf of the plugin's own build.resolve call, and       *)
(* esbuild goes on to answer that call.                                    *)
(***************************************************************************)
Finish(rec, raw, out) ==
    IF rec.depth = 0
      THEN [ rec EXCEPT !.st = "done", !.pc = "none", !.raw = raw,
                        !.outcome = out.kind, !.result = out.result,
                        !.err = out.err ]
    ELSE [ rec EXCEPT !.depth = @ - 1, !.pc = "native",
                      !.pending = IF out.kind = "skipped" THEN {}
                                  ELSE IF out.kind = "thrown" THEN {ErrorResult}
                                  ELSE out.result ]

\* result = await build.resolve(importPath, otherOptions): esbuild runs the
\* onResolve callbacks on the request, this plugin's among them
CallResolve(rec) ==
    [ rec EXCEPT !.calls = @ + 1, !.depth = @ + 1, !.pc = "enter" ]

\* IsRelativeSpecifier without the fast path, to see which properties rest
\* on it
NeverRelative(p) == FALSE

\* `importPath.startsWith(".")`, line 43
IsRelativeSpecifier(p) == StartsWith(p, <<".">>)

\* resolveInExecroot up to its first await
StartResolve(rec) ==
    IF IsRelativeSpecifier(rec.importPath)
      THEN [ rec EXCEPT !.pc = "lstat", !.probes = @ + 1 ]
    ELSE CallResolve(rec)

\* AlreadyExecuted without the guard, to see which properties rest on it
NeverExecuted(h, ref) == FALSE

\* `otherOptions.pluginData.executedSandboxPlugin`, line 20
AlreadyExecuted(h, ref) == h[ref]

\* MarkPluginData without the assignment, to see which properties rest on it
MarkerNotSet(h, ref) == h

\* `otherOptions.pluginData.executedSandboxPlugin = true`, line 26
MarkPluginData(h, ref) == [ h EXCEPT ![ref] = TRUE ]

\* the onResolve callback, lines 17-28, for request id on the state (rec, h)
Callback(id, rec, h) ==
    IF rec.ref # "none" /\ AlreadyExecuted(h, rec.ref)
      THEN [ rec |-> Finish(rec, {}, Skipped), heap |-> h ]
    ELSE LET ref == IF rec.ref = "none" THEN id ELSE rec.ref
         IN  [ rec |-> StartResolve([rec EXCEPT !.ref = ref]),
               heap |-> MarkPluginData(h, ref) ]

(***************************************************************************)
(* Actions of the plugin.                                                  *)
(***************************************************************************)
PluginInit ==
    /\ req = [ r \in Requests |-> IdleRequest ]
    /\ heap = [ o \in ObjIds |-> FALSE ]

\* esbuild meets an import and runs the callback on it
OnResolve(r) ==
    /\ req[r].st = "idle"
    /\ \E p \in ImportPaths, d \in ResolveDirs, pd \in {"none"} \cup SharedObjs :
         LET rec == [ IdleRequest EXCEPT
                        !.st = "active", !.importPath = p, !.resolveDir = d,
                        !.pluginData = pd, !.ref = pd,
                        !.markedOnEntry = (pd # "none" /\ heap[pd]) ]
             out == Callback(r, rec, heap)
         IN  /\ out.rec.depth <= MaxDepth
             /\ req' = [ req EXCEPT ![r] = out.rec ]
             /\ heap' = out.heap
             /\ UNCHANGED lvars

\* esbuild runs the callback on the request of the plugin's build.resolve
NestedOnResolve(r) ==
    /\ req[r].st = "active"
    /\ req[r].pc = "enter"
    /\ LET out == Callback(r, req[r], heap)
       IN  /\ out.rec.depth <= MaxDepth
           /\ req' = [ req EXCEPT ![r] = out.rec ]
           /\ heap' = out.heap
           /\ UNCHANGED lvars

\* await fs.lstat(resolvedPath) settles
LstatDone(r) ==
    /\ req[r].st = "active"
    /\ req[r].pc = "lstat"
    /\ \E fs \in {"file", "symlink", "enoent", "error"} :
         LET rec == [ req[r] EXCEPT !.fs = fs ]
             resolvedPath == PathJoin(rec.resolveDir, rec.importPath)
             next ==
               CASE fs = "file" ->
                      Finish(rec, {PathResult(resolvedPath)},
                             PostProcess(PathResult(resolvedPath)))
                 [] fs = "symlink" ->
                      [ rec EXCEPT !.pc = "readlink", !.probes = @ + 1 ]
                 [] fs = "enoent" -> CallResolve(rec)
                 [] fs = "error" -> Finish(rec, {}, Thrown(FsError))
         IN  /\ next.depth <= MaxDepth
             /\ req' = [ req EXCEPT ![r] = next ]
    /\ UNCHANGED heap
    /\ UNCHANGED lvars

\* await fs.readlink(...) settles
ReadlinkDone(r) ==
    /\ req[r].st = "active"
    /\ req[r].pc = "readlink"
    /\ \/ \E target \in PathPool :
            req' = [ req EXCEPT ![r] =
                       Finish(req[r], {PathResult(target)},
                              PostProcess(PathResult(target))) ]
       \/ /\ req[r].depth < MaxDepth
          /\ req' = [ req EXCEPT ![r] = CallResolve([req[r] EXCEPT !.fs = "enoent"]) ]
       \/ req' = [ req EXCEPT ![r] =
                     Finish([req[r] EXCEPT !.fs = "error"], {}, Thrown(FsError)) ]
    /\ UNCHANGED heap
    /\ UNCHANGED lvars

\* esbuild answers build.resolve: with what an onResolve callback returned
\* for the request, or else with what its own resolver finds
BundlerResolves(r) ==
    /\ req[r].st = "active"
    /\ req[r].pc = "native"
    /\ \E res \in (IF req[r].pending = {} THEN ResolverResults ELSE req[r].pending) :
         req' = [ req EXCEPT ![r] =
                    Finish([req[r] EXCEPT !.pending = {}], {res}, PostProcess(res)) ]
    /\ UNCHANGED heap
    /\ UNCHANGED lvars


(***************************************************************************)
(* launcher.js.  A JavaScript value is a record of its shape t and its     *)
(* content v: a scalar, an array (a sequence) or an object (a function     *)
(* from its keys).  A build specification is a function from option names  *)
(* to values.                                                              *)
(***************************************************************************)
NullValue == [ t |-> "null", v |-> 0 ]

Scalar(n) == [ t |-> "scalar", v |-> n ]

Array(seq) == [ t |-> "array", v |-> seq ]

Object(f) == [ t |-> "object", v |-> f ]

EmptyObject == [ k \in {} |-> NullValue ]

\* { ...a, ...b } on functions
Spread(a, b) ==
    [ k \in DOMAIN a \cup DOMAIN b |-> IF k \in DOMAIN b THEN b[k] ELSE a[k] ]

\* the own enumerable properties that `...value` copies into an object
\* literal: an object's entries, an array's elements under their indices,
\* nothing for a scalar
IndexNames == <<"0", "1", "2", "3">>

OwnProperties(value) ==
    IF value.t = "object" THEN value.v
    ELSE IF value.t = "array"
      THEN [ k \in { IndexNames[i] : i \in 1..Len(value.v) } |->
               value.v[CHOOSE i \in 1..Len(value.v) : IndexNames[i] = k] ]
    ELSE EmptyObject

\* whether `...value` inside an array literal works: it needs an iterable
IsIterable(value) == value.t = "array"

Flags == { "--esbuild_args", "--user_args", "--config_file", "--metafile" }

EnvVars == { "ESBUILD_BINARY_PATH", "ESBUILD_BAZEL_SANDBOX_PLUGIN" }

\* getFlag, lines 7-17: the flag's value, undefined, or process.exit(1).
\* argv holds the flags given with a value; a flag given as `--name=` reads
\* as the empty string, which the optional flags treat as absent and the
\* file operations fail on
getFlag(flag, required) ==
    IF flag \in argv THEN [ exit |-> FALSE, value |-> flag ]
    ELSE [ exit |-> required, value |-> Undefined ]

IGNORED_CONFIG_KEYS ==
    { "bundle", "entryPoints", "external", "metafile", "outdir", "outfile",
      "preserveSymlinks", "sourcemap", "splitting" }

MERGE_CONFIG_KEYS == { "define" }

\* the order in which Object.entries lists the keys of a configuration
KeyOrder ==
    << "bundle", "entryPoints", "external", "metafile", "outdir", "outfile",
       "preserveSymlinks", "sourcemap", "splitting", "define", "minify",
       "plugins" >>

\* IsIgnoredKey with one key dropped from the list, to see which properties
\* rest on it
SourcemapNotIgnored(key) == key \in IGNORED_CONFIG_KEYS \ {"sourcemap"}

\* `IGNORED_CONFIG_KEYS.includes(key)`, line 70
IsIgnoredKey(key) == key \in IGNORED_CONFIG_KEYS

\* [...value, ...existingArgs[key]]
MergeArray(value, existing) == Array(value.v \o existing.v)

\* MergeObject with the spreads exchanged, to see which properties rest on it
ConfigWinsCollision(value, existing) ==
    Object(Spread(OwnProperties(existing), OwnProperties(value)))

\* { ...value, ...existingArgs[key] }
MergeObject(value, existing) ==
    Object(Spread(OwnProperties(value), OwnProperties(existing)))

Warning(kind, key) == [ kind |-> kind, key |-> key ]

\* one step of the reduce of lines 65-97 on the accumulator
\* acc = [prev, log, threw]
FoldEntry(acc, key, value, existing) ==
    IF acc.threw THEN acc
    ELSE IF value.t = "null" THEN acc
    ELSE IF IsIgnoredKey(key)
      THEN [ acc EXCEPT !.log = Append(@, Warning("ignored", key)) ]
    ELSE IF key \in MERGE_CONFIG_KEYS /\ key \in DOMAIN existing
      THEN IF value.t = "array"
             THEN IF IsIterable(existing[key])
                    THEN [ acc EXCEPT !.prev =
                             Spread(@, [ k \in {key} |->
                                           MergeArray(value, existing[key]) ]) ]
                  ELSE [ acc EXCEPT !.threw = TRUE ]
           ELSE IF value.t = "object"
             THEN [ acc EXCEPT !.prev =
                      Spread(@, [ k \in {key} |->
                                    MergeObject(value, existing[key]) ]) ]
           ELSE [ acc EXCEPT !.log = Append(@, Warning("unmergeable", key)) ]
    ELSE [ acc EXCEPT !.prev = Spread(@, [ k \in {key} |-> value ]) ]

RECURSIVE Fold(_, _, _, _)
Fold(acc0, i, cfg, existing) ==
    Only({ IF i > Len(KeyOrder) THEN acc
           ELSE IF KeyOrder[i] \in DOMAIN cfg
             THEN Fold(FoldEntry(acc, KeyOrder[i], cfg[KeyOrder[i]], existing),
                       i + 1, cfg, existing)
           ELSE Fold(acc, i + 1, cfg, existing)
           : acc \in {acc0} })

\* processConfigFile, lines 65-97, on a loaded default export
processConfigFile(cfg, existing) ==
    Fold([ prev |-> EmptyObject, log |-> <<>>, threw |-> FALSE ], 1, cfg, existing)

\* MergeConfig with the spreads exchanged, to see which properties rest on it
ArgsWin(a, folded) == Spread(folded, a)

\* args = { ...args, ...config }, lines 115-118
MergeConfig(a, folded) == Spread(a, folded)

\* lines 121-129: the plugin list put on the build specification
WithPlugins(a) ==
    LET sandbox == IF "ESBUILD_BAZEL_SANDBOX_PLUGIN" \in env
                     THEN <<"bazel-sandbox">> ELSE <<>>
        declared == IF "plugins" \in DOMAIN a THEN a["plugins"].v ELSE <<>>
    IN  Spread(a, [ k \in {"plugins"} |-> Array(sandbox \o declared) ])

(***************************************************************************)
(* What the files and the configuration module may hold.                   *)
(***************************************************************************)
DefineExisting == Object([ k \in {"B", "C"} |-> IF k = "B" THEN 3 ELSE 4 ])

DefineConfig == Object([ k \in {"A", "B"} |-> IF k = "A" THEN 1 ELSE 2 ])

\* the --esbuild_args parameter file
InlineFragments ==
    { [ k \in {"bundle", "minify", "define"} |->
          IF k = "bundle" THEN Scalar(1)
          ELSE IF k = "minify" THEN Scalar(1) ELSE DefineExisting ],
      [ k \in {"bundle", "define"} |->
          IF k = "bundle" THEN Scalar(1) ELSE Array(<<3>>) ],
      [ k \in {"outdir", "define"} |->
          IF k = "outdir" THEN Scalar(1) ELSE Scalar(7) ],
      [ k \in {"entryPoints", "logLevel"} |->
          IF k = "entryPoints" THEN Array(<<1>>) ELSE Scalar("silent") ] }

\* the --user_args parameter file
UserFragments ==
    { [ k \in {"minify", "sourcemap"} |-> Scalar(3) ] }

ConfigValues(key) ==
    IF key = "define"
      THEN { NullValue, DefineConfig, Array(<<1, 2>>), Scalar(5) }
    ELSE IF key = "plugins" THEN { Array(<<"p">>) }
    ELSE IF key \in {"bundle", "minify"} THEN { NullValue, Scalar(2) }
    ELSE { Scalar(2) }

ConfigKeys == { KeyOrder[i] : i \in 1..Len(KeyOrder) }

\* the default exports with at most MaxConfigKeys keys
Configs ==
    UNION { { c \in [ keys -> UNION { ConfigValues(k) : k \in keys } ] :
                \A k \in keys : c[k] \in ConfigValues(k) }
            : keys \in { K \in SUBSET ConfigKeys : Cardinality(K) <= MaxConfigKeys } }

(***************************************************************************)
(* Actions of the launcher.                                                *)
(***************************************************************************)
LauncherInit ==
    /\ lpc = "start"
    /\ argv \in SUBSET Flags
    /\ env \in SUBSET EnvVars
    /\ args = EmptyObject
    /\ existingArgs = EmptyObject
    /\ config = EmptyObject
    /\ stderr = <<>>
    /\ buildResult = {}
    /\ exitCode = {}
    /\ manifest = FALSE

\* process.exit(1) after a console.error
Exit1(message) ==
    /\ lpc' = "ended"
    /\ stderr' = Append(stderr, message)
    /\ exitCode' = {1}

\* lines 121-132: the plugin list is put on args and esbuild.build is called
CallBuild(a) ==
    /\ args' = WithPlugins(a)
    /\ lpc' = "build"

\* lines 100-103 and 156-160, and runOneBuild up to its first await
Start ==
    /\ lpc = "start"
    /\ IF "ESBUILD_BINARY_PATH" \notin env
         THEN /\ Exit1(Warning("fatal", "ESBUILD_BINARY_PATH"))
              /\ UNCHANGED <<args, existingArgs>>
       ELSE IF getFlag("--esbuild_args", TRUE).exit
         THEN /\ Exit1(Warning("fatal", "--esbuild_args"))
              /\ UNCHANGED <<args, existingArgs>>
       ELSE \/ /\ Exit1(Warning("fatal", "esbuild flags param file"))
               /\ UNCHANGED <<args, existingArgs>>
            \/ /\ getFlag("--user_args", FALSE).value # Undefined
               /\ Exit1(Warning("fatal", "esbuild flags param file"))
               /\ UNCHANGED <<args, existingArgs>>
            \/ \E inline \in InlineFragments, user \in UserFragments :
                 LET merged ==
                       IF getFlag("--user_args", FALSE).value # Undefined
                         THEN Spread(inline, user) ELSE inline
                 IN  /\ existingArgs' = merged
                     /\ IF getFlag("--config_file", FALSE).value # Undefined
                          THEN /\ args' = merged
                               /\ lpc' = "import"
                        ELSE CallBuild(merged)
                     /\ UNCHANGED <<stderr, exitCode>>
    /\ UNCHANGED <<argv, env, config, buildResult, manifest>>
    /\ UNCHANGED pvars

\* await import(fullConfigFileUrl) settles, lines 32-48; then lines 65-97
\* and 114-132
ConfigLoaded ==
    /\ lpc = "import"
    /\ \/ /\ Exit1(Warning("fatal", "loading configuration"))
          /\ UNCHANGED <<args, config>>
       \/ /\ Exit1(Warning("fatal", "no default export"))
          /\ UNCHANGED <<args, config>>
       \/ \E cfg \in Configs :
            LET folded == processConfigFile(cfg, args)
            IN  /\ config' = cfg
                /\ IF folded.threw
                     THEN \* a TypeError leaves runOneBuild's promise rejected
                          /\ lpc' = "ended"
                          /\ exitCode' = {1}
                          /\ stderr' = Append(stderr \o folded.log,
                                              Warning("uncaught", "TypeError"))
                          /\ UNCHANGED args
                   ELSE /\ CallBuild(MergeConfig(args, folded.prev))
                        /\ stderr' = stderr \o folded.log
                        /\ UNCHANGED exitCode
    /\ UNCHANGED <<argv, env, existingArgs, buildResult, manifest>>
    /\ UNCHANGED pvars

BuildResults ==
    { [ ok |-> TRUE, metafile |-> TRUE, message |-> "" ],
      [ ok |-> TRUE, metafile |-> FALSE, message |-> "" ],
      [ ok |-> FALSE, metafile |-> FALSE, message |-> "Build failed with 1 error:" ],
      [ ok |-> FALSE, metafile |-> FALSE, message |-> "other" ] }

\* MetafileProduced without its test, to see which properties rest on it
MetafileNeverProduced(res) == FALSE

\* `if (result.metafile)`, line 133
MetafileProduced(res) == res.metafile

\* lines 146-149
hasAlreadyLogged(a, res) ==
    /\ ~("logLevel" \in DOMAIN a /\ a["logLevel"] = Scalar("silent"))
    /\ res.message = "Build failed with 1 error:"

\* await esbuild.build(args) settles, lines 132-153
BuildSettles ==
    /\ lpc = "build"
    /\ lpc' = "ended"
    /\ \E res \in BuildResults, written \in BOOLEAN :
         /\ buildResult' = {res}
         /\ IF res.ok
              THEN IF MetafileProduced(res)
                     THEN IF getFlag("--metafile", TRUE).exit
                            THEN /\ stderr' = Append(stderr,
                                                Warning("fatal", "--metafile"))
                                 /\ exitCode' = {1}
                                 /\ manifest' = FALSE
                          ELSE IF written
                            THEN /\ manifest' = TRUE
                                 /\ exitCode' = {0}
                                 /\ UNCHANGED stderr
                          ELSE \* writeFileSync throws into the catch block
                               /\ manifest' = FALSE
                               /\ exitCode' = {1}
                               /\ stderr' = Append(stderr,
                                                   Warning("error", "write"))
                   ELSE /\ exitCode' = {0}
                        /\ UNCHANGED <<stderr, manifest>>
            ELSE /\ exitCode' = {1}
                 /\ stderr' = IF hasAlreadyLogged(args, res) THEN stderr
                              ELSE Append(stderr, Warning("error", "build"))
                 /\ UNCHANGED manifest
    /\ UNCHANGED <<argv, env, args, existingArgs, config>>
    /\ UNCHANGED pvars

LauncherNext == Start \/ ConfigLoaded \/ BuildSettles

\* the plugin at rest while the launcher is followed
LauncherSpecInit == PluginInit /\ LauncherInit

LauncherSpec == LauncherSpecInit /\ [][LauncherNext]_vars

(***************************************************************************)
(* Properties of the launcher.                                             *)
(***************************************************************************)
\* the build specification is assembled and handed to esbuild.build
Assembled == lpc = "build"

\* the configuration module gives key a value that is not null
Supplies(key) == key \in DOMAIN config /\ config[key].t # "null"

PlainKey(key) ==
    /\ key \notin IGNORED_CONFIG_KEYS
    /\ key \notin MERGE_CONFIG_KEYS
    /\ key # "plugins"

\* C1 as stated: a value the inline/parameter-file fragment set for a key
\* that is neither ignored nor mergeable is still in the build specification
\* when the configuration module supplies the key too.
C1_ConfigNeverOverrides ==
    Assembled
    => \A key \in DOMAIN existingArgs :
           (PlainKey(key) /\ Supplies(key)) => args[key] = existingArgs[key]

\* C1 amended: for a key that is neither ignored nor mergeable the build
\* specification holds the configuration module's value whenever the module
\* supplies one, whether or not the key was set before; a value set before
\* stays where the module supplies none.
C1_ConfigOverrides ==
    Assembled
    => /\ \A key \in DOMAIN config :
              (PlainKey(key) /\ Supplies(key))
              => key \in DOMAIN args /\ args[key] = config[key]
       /\ \A key \in DOMAIN existingArgs :
              (PlainKey(key) /\ ~Supplies(key))
              => key \in DOMAIN args /\ args[key] = existingArgs[key]

C1_Witness ==
    /\ Assembled
    /\ "minify" \in DOMAIN existingArgs
    /\ Supplies("minify")
    /\ config["minify"] # existingArgs["minify"]
    /\ args["minify"] = config["minify"]

RECURSIVE CountWarnings(_, _, _)
CountWarnings(log, kind, key) ==
    IF log = <<>> THEN 0
    ELSE (IF Head(log) = Warning(kind, key) THEN 1 ELSE 0)
         + CountWarnings(Tail(log), kind, key)

\* C7: an ignored key that the configuration module supplies has, in the
\* build specification handed to esbuild, the value it had before the module
\* was folded in, or stays absent, and one warning names it.
C7_IgnoredKeysKept ==
    Assembled
    => \A key \in IGNORED_CONFIG_KEYS :
           Supplies(key)
           => /\ (key \in DOMAIN args) = (key \in DOMAIN existingArgs)
              /\ key \in DOMAIN args => args[key] = existingArgs[key]
              /\ CountWarnings(stderr, "ignored", key) = 1

C7_Witness ==
    /\ Assembled
    /\ \E key \in IGNORED_CONFIG_KEYS :
          /\ Supplies(key)
          /\ key \in DOMAIN existingArgs
          /\ config[key] # existingArgs[key]
          /\ args[key] = existingArgs[key]
    /\ \E key \in IGNORED_CONFIG_KEYS :
          Supplies(key) /\ key \notin DOMAIN args

\* C8: when the configuration module and the existing fragment both supply
\* define, two mappings give their union with the existing entry on every
\* shared key, two sequences give the module's entries followed by the
\* existing ones, and any other shape of the module's value gives a warning
\* and leaves the existing value.
C8_DefineMerged ==
    (Assembled /\ Supplies("define") /\ "define" \in DOMAIN existingArgs)
    => LET value == config["define"]
           existing == existingArgs["define"]
           merged == args["define"]
       IN  /\ (value.t = "object" /\ existing.t = "object")
              => /\ merged.t = "object"
                 /\ DOMAIN merged.v = DOMAIN value.v \cup DOMAIN existing.v
                 /\ \A k \in DOMAIN merged.v :
                        merged.v[k] = IF k \in DOMAIN existing.v
                                        THEN existing.v[k] ELSE value.v[k]
           /\ (value.t = "array" /\ existing.t = "array")
              => merged.t = "array" /\ merged.v = value.v \o existing.v
           /\ (value.t \notin {"array", "object"})
              => /\ merged = existing
                 /\ CountWarnings(stderr, "unmergeable", "define") = 1

\* config {A: 1, B: 2} on existing {B: 3, C: 4} gives {A: 1, B: 3, C: 4}
C8_Witness ==
    /\ Assembled
    /\ Supplies("define")
    /\ "define" \in DOMAIN existingArgs
    /\ config["define"] = DefineConfig
    /\ existingArgs["define"] = DefineExisting
    /\ args["define"] =
         Object([ k \in {"A", "B", "C"} |->
                    IF k = "A" THEN 1 ELSE IF k = "B" THEN 3 ELSE 4 ])

\* the run has ended after esbuild.build settled
Settled(res) == lpc = "ended" /\ res \in buildResult

\* C9 as stated: a run whose build succeeds ends with status 0 and a run
\* whose build fails with another status; after a successful build the
\* manifest is written exactly when the build produced a metafile and the
\* --metafile flag was given.
C9_ExitStatus ==
    \A res \in BuildResults :
        Settled(res)
        => /\ res.ok => exitCode = {0}
           /\ ~res.ok => exitCode # {0}
           /\ res.ok => (manifest = (res.metafile /\ "--metafile" \in argv))

\* C9 amended: a run whose build fails ends with status 1; a run whose build
\* succeeds ends with status 0, except that it ends with status 1 and writes
\* no manifest when the build produced a metafile and the --metafile flag is
\* missing or the write fails; the manifest is written only when the build
\* produced a metafile and the flag was given.
C9_ExitStatusMetafileRequired ==
    \A res \in BuildResults :
        Settled(res)
        => /\ ~res.ok => (exitCode = {1} /\ ~manifest)
           /\ (res.ok /\ ~res.metafile) => (exitCode = {0} /\ ~manifest)
           /\ (res.ok /\ res.metafile /\ "--metafile" \notin argv)
              => (exitCode = {1} /\ ~manifest)
           /\ (res.ok /\ res.metafile /\ "--metafile" \in argv)
              => \/ exitCode = {0} /\ manifest
                 \/ exitCode = {1} /\ ~manifest

C9_Witness ==
    \E res \in BuildResults :
        /\ Settled(res)
        /\ res.ok /\ res.metafile /\ "--metafile" \notin argv
        /\ exitCode = {1}


(***************************************************************************)
(* Specifications of the resolver plugin.                                  *)
(***************************************************************************)
\* what request r awaits: at most one of these is enabled at a time
Response(r) ==
    \/ NestedOnResolve(r)
    \/ LstatDone(r)
    \/ ReadlinkDone(r)
    \/ BundlerResolves(r)

\* the launcher while the plugin is followed: it awaits esbuild.build, with
\* the sandbox plugin first in the plugin list
LauncherIdle ==
    /\ lpc = "build"
    /\ argv = {"--esbuild_args"}
    /\ env = EnvVars
    /\ existingArgs = (CHOOSE f \in InlineFragments : "entryPoints" \in DOMAIN f)
    /\ args = WithPlugins(existingArgs)
    /\ config = EmptyObject
    /\ stderr = <<>>
    /\ buildResult = {}
    /\ exitCode = {}
    /\ manifest = FALSE

PluginNext == \E r \in Requests : OnResolve(r) \/ Response(r)

Init == PluginInit /\ LauncherIdle

Spec == Init /\ [][PluginNext]_vars

\* Termination is checked on one request.  Requests meet only in the marker
\* of a pluginData object they share, so the others show in the marker that
\* the shared objects may already carry.
Followed == CHOOSE r \in Requests : TRUE

FairInit ==
    /\ req = [ r \in Requests |-> IdleRequest ]
    /\ heap \in { h \in [ ObjIds -> BOOLEAN ] : \A r \in Requests : ~h[r] }
    /\ LauncherIdle

FairNext == OnResolve(Followed) \/ Response(Followed)

\* the responses the plugin awaits do arrive: esbuild runs the nested
\* onResolve and answers build.resolve, and the filesystem probes settle
FairSpec == FairInit /\ [][FairNext]_vars /\ WF_vars(Response(Followed))

(***************************************************************************)
(* Properties of the resolver plugin.                                      *)
(***************************************************************************)
IsPrefixOf(a, b) == Len(a) <= Len(b) /\ SubSeq(b, 1, Len(a)) = a

DirSegments(p) == NormalizeSegments(Segments(p, 1, <<>>), <<>>, FALSE)

\* p names the execution root directory or something below it
UnderExecroot(p) ==
    /\ StartsWith(p, <<"/">>)
    /\ IsPrefixOf(DirSegments(execroot), DirSegments(p))

Done(r) == req[r].st = "done"

\* C2: whenever a request that did not carry the marker is answered with an
\* error-free result whose path begins with ".", "/" or "\", that path is the
\* execution root or lies below it.
C2_SandboxInvariant ==
    \A r \in Requests :
        (Done(r) /\ ~req[r].markedOnEntry /\ req[r].outcome = "result")
        => \A res \in req[r].result :
               (~res.errors /\ IsPathLike(res.path)) => UnderExecroot(res.path)

\* C3: no request that esbuild or another plugin issues is answered by the
\* recursion guard (returned without resolution and without correction),
\* whatever other requests are in flight or complete, also when requests
\* share one pluginData object.
C3_NoInterference ==
    \A r \in Requests : Done(r) => req[r].outcome # "skipped"

\* C4: a callback invocation that finds the marker set on its pluginData
\* returns at once with no result: it starts no filesystem probe, calls
\* build.resolve not at all, corrects nothing, throws nothing and leaves the
\* pluginData objects as they are.
C4_RecursionGuard ==
    [][ \A r \in Requests :
          /\ (req[r].st = "idle" /\ req'[r].st # "idle" /\ req'[r].markedOnEntry)
             => /\ req'[r].st = "done"
                /\ req'[r].outcome = "skipped"
                /\ req'[r].result = {} /\ req'[r].raw = {} /\ req'[r].err = {}
                /\ req'[r].probes = 0 /\ req'[r].calls = 0
                /\ heap' = heap
          /\ (req[r].pc = "enter" /\ req'[r] # req[r] /\ heap[req[r].ref])
             => /\ req'[r].pc = "native"
                /\ req'[r].depth = req[r].depth - 1
                /\ req'[r].pending = {}
                /\ req'[r].probes = req[r].probes
                /\ req'[r].calls = req[r].calls
                /\ heap' = heap ]_vars

C4_Witness ==
    \E r \in Requests :
        /\ Done(r) /\ req[r].markedOnEntry /\ req[r].outcome = "skipped"
        /\ StartsWith(req[r].importPath, <<".">>)

\* the case C5 is about: an error-free, path-like result that neither begins
\* with the execution root nor contains the binary output directory
EscapedBoth(res) ==
    /\ ~res.errors
    /\ IsPathLike(res.path)
    /\ ~StartsWith(res.path, execroot)
    /\ ~Includes(res.path, bindir)

\* C5 as stated: an escape out of both roots fails the build with an error
\* that names the offending path and the execution root.
C5_EscapeErrorNamesExecroot ==
    \A r \in Requests :
        Done(r) => \A res \in req[r].raw :
            EscapedBoth(res)
            => /\ req[r].outcome = "thrown"
               /\ req[r].result = {}
               /\ \A e \in req[r].err : e.path = res.path /\ e.root = execroot

\* C5 amended: an escape out of both roots fails the build with an error
\* that names the offending path and the binary output directory.
C5_EscapeErrorNamesBindir ==
    \A r \in Requests :
        Done(r) => \A res \in req[r].raw :
            EscapedBoth(res)
            => /\ req[r].outcome = "thrown"
               /\ req[r].result = {}
               /\ req[r].err # {}
               /\ \A e \in req[r].err : e.path = res.path /\ e.root = bindir

C5_Witness ==
    \E r \in Requests :
        /\ Done(r) /\ req[r].outcome = "thrown"
        /\ \E res \in req[r].raw : EscapedBoth(res)

\* the case C6 is about: an unmarked request with a relative specifier whose
\* joined path exists and is no symbolic link
FastPathFile(r) ==
    /\ Done(r)
    /\ ~req[r].markedOnEntry
    /\ StartsWith(req[r].importPath, <<".">>)
    /\ req[r].fs = "file"

Joined(r) == PathJoin(req[r].resolveDir, req[r].importPath)

SlowPathOnlyWhenMissing ==
    \A r \in Requests :
        (StartsWith(req[r].importPath, <<".">>) /\ req[r].calls > 0)
        => req[r].fs = "enoent"

\* C6 as stated: on the fast path the plugin returns {path: resolveDir/p}
\* and never calls build.resolve; a relative specifier reaches build.resolve
\* only when the joined path does not exist.
C6_FastPathReturnsJoined ==
    /\ \A r \in Requests :
          FastPathFile(r)
          => /\ req[r].calls = 0
             /\ req[r].outcome = "result"
             /\ req[r].result = { PathResult(Joined(r)) }
    /\ SlowPathOnlyWhenMissing

\* C6 amended: on the fast path the plugin never calls build.resolve; it
\* returns {path: resolveDir/p} when that path begins with the execution
\* root, returns the path remapped into the execution root when it does not
\* but contains the binary output directory, and fails the build otherwise;
\* a relative specifier reaches build.resolve only when the joined path does
\* not exist.
C6_FastPathCorrected ==
    /\ \A r \in Requests :
          FastPathFile(r)
          => /\ req[r].calls = 0
             /\ req[r].raw = { PathResult(Joined(r)) }
             /\ IF ~IsPathLike(Joined(r)) \/ StartsWith(Joined(r), execroot)
                  THEN /\ req[r].outcome = "result"
                       /\ req[r].result = { PathResult(Joined(r)) }
                ELSE IF Includes(Joined(r), bindir)
                  THEN /\ req[r].outcome = "result"
                       /\ req[r].result =
                            { PathResult(PathJoin(execroot,
                                SubstringFrom(Joined(r),
                                              IndexOf(Joined(r), bindir)))) }
                ELSE /\ req[r].outcome = "thrown"
                     /\ req[r].result = {}
    /\ SlowPathOnlyWhenMissing

C6_Witness ==
    \E r \in Requests :
        /\ FastPathFile(r)
        /\ req[r].outcome = "result"
        /\ req[r].result = { PathResult(Joined(r)) }
        /\ req[r].calls = 0

\* C10: every request handed to the plugin completes, the plugin calls
\* build.resolve at most once for it, and the callback is never entered more
\* than one level below the original invocation.
C10_BoundedRecursion ==
    /\ (req[Followed].st = "active") ~> (req[Followed].st = "done")
    /\ [](\A r \in Requests : req[r].calls <= 1 /\ req[r].depth <= 1)

C10_Witness ==
    \E r \in Requests :
        /\ Done(r) /\ req[r].calls = 1 /\ ~req[r].markedOnEntry
        /\ req[r].outcome = "result"

=============================================================================
